---- MODULE Spec2Model ----
\* A model of the polling engine of eo_listener (src/src/lib.rs): the EoServer
\* struct's processed-block watermark, one run_loop iteration after another, the
\* tokio::select! of EoServer::next over the two log queries, the two batch
\* handlers, and what run_loop surfaces (its log::info! of the returned logs).
EXTENDS Integers, Sequences, FiniteSets, Bags, TLC

\* ---------------------------------------------------------------- bounds
\* Block numbers range over 0..MaxBlock; a query returns at most MaxBatch logs.
MaxBlock == 3
MaxBatch == 3

\* ---------------------------------------------------------------- data
\* Option<U64>: None is the empty sequence, Some(b) the one-element sequence.
None == << >>
Some(b) == << b >>

Blocks == 0 .. MaxBlock

\* web3::types::BlockNumber: Number(bn) or one of the tags without a number.
Markers == {"Latest", "Earliest", "Pending"}
Number(bn) == [tag |-> "Number", bn |-> bn]
Marker(t) == [tag |-> t, bn |-> 0]
BlockNumber == {Number(bn) : bn \in Blocks} \cup {Marker(t) : t \in Markers}

\* The two variants of EventType.
EventTypes == {"Settlement", "Bridge"}

\* web3::types::Log, reduced to what the handlers read: block_number
\* (Option<U64>) and whether event_abi.parse_log accepts its topics and data;
\* log_index tells the logs of one block apart.
\* The logs a filter can return: a well-formed one in every block, a second
\* well-formed one and a malformed one in the last block, and one (pending)
\* log that has no block number.
ChainLogs ==
    {[block_number |-> Some(b), parses |-> TRUE, log_index |-> 0] : b \in Blocks}
        \cup {[block_number |-> Some(MaxBlock), parses |-> TRUE, log_index |-> 1]}
        \cup {[block_number |-> Some(MaxBlock), parses |-> FALSE, log_index |-> 2]}
        \cup {[block_number |-> None, parses |-> TRUE, log_index |-> 0]}

\* Result<_, _>
Ok(v) == [ok |-> TRUE, val |-> v]
Err == [ok |-> FALSE, val |-> << >>]

\* The responses of one eth_getLogs query: a transport error, or a list of
\* distinct logs (the node lists every matching log once).
Distinct(s) == \A i, j \in DOMAIN s : i # j => s[i] # s[j]
Batches ==
    UNION {{s \in [1 .. n -> ChainLogs] : Distinct(s)} : n \in 0 .. MaxBatch}
Responses == {Err} \cup {Ok(b) : b \in Batches}

\* ---------------------------------------------------------------- state
VARIABLES
    last_processed_block,  \* EoServer.last_processed_block
    pc,                    \* run_loop: "loop" (top), "select" (inside next, both
                           \* queries in flight), "returned" (next has returned)
    event_type,            \* the select! branch that ran in this iteration
    response,              \* the query result that branch received
    logs,                  \* run_loop's local `logs`: what next returned
    settled,               \* the event types whose batch this iteration processed
    before,                \* last_processed_block when the iteration began
    start,                 \* last_processed_block as EoServerBuilder set it
    sink,                  \* what run_loop has logged: a bag of <<event type, log>>
    stop                   \* a StopToken has been sent to the listener

vars ==
    << last_processed_block, pc, event_type, response, logs, settled, before,
       start, sink, stop >>

\* ---------------------------------------------------------------- watermark
\* EoServer::inner_block_processed
inner_block_processed(lpb) ==
    IF lpb.tag = "Number" THEN lpb.bn ELSE 0

\* block_processed answering as its `_` arm does, whatever is stored.
block_processed_never(lpb, block_number) ==
    FALSE

\* block_processed with `<` where the code has `<=`.
block_processed_strict(lpb, block_number) ==
    IF lpb.tag = "Number" THEN block_number < lpb.bn ELSE FALSE

\* EoServer::block_processed
block_processed(lpb, block_number) ==
    IF lpb.tag = "Number" THEN block_number <= lpb.bn ELSE FALSE

\* EoServer::parse_bridge_event / parse_settlement_event: event_abi.parse_log,
\* with its error mapped to EoServerError::Other.
parse_bridge_event(event) ==
    IF event.parses THEN Ok(event) ELSE Err

parse_settlement_event(event) ==
    IF event.parses THEN Ok(event) ELSE Err

\* highest_block assigned without the comparison.
raise_highest_unguarded(block_number, highest_block) ==
    block_number

\* `if block_number > highest_block { highest_block = block_number; }`
raise_highest(block_number, highest_block) ==
    IF block_number > highest_block THEN block_number ELSE highest_block

\* ---------------------------------------------------------------- handlers
\* The loop of handle_bridge_event with a log that has no block number passed
\* over (`if let Some(block_number) = event.block_number`) instead of `?`.
RECURSIVE bridge_loop_passing(_, _, _, _)
bridge_loop_passing(lpb, events, parsed_logs, highest_block) ==
    IF events = << >>
    THEN Ok([parsed_logs |-> parsed_logs, highest_block |-> highest_block])
    ELSE LET event == Head(events) IN
         IF event.block_number = None
         THEN bridge_loop_passing(lpb, Tail(events), parsed_logs, highest_block)
         ELSE LET block_number == event.block_number[1] IN
              IF ~block_processed(lpb, block_number)
              THEN LET log == parse_bridge_event(event) IN
                   IF ~log.ok
                   THEN Err
                   ELSE bridge_loop_passing(lpb, Tail(events),
                                            Append(parsed_logs, log.val),
                                            raise_highest(block_number, highest_block))
              ELSE bridge_loop_passing(lpb, Tail(events), parsed_logs,
                                       highest_block)

\* The loop of handle_bridge_event with self.last_processed_block written
\* inside the loop, each time highest_block is raised.
RECURSIVE bridge_loop_eager(_, _, _, _)
bridge_loop_eager(lpb, events, parsed_logs, highest_block) ==
    IF events = << >>
    THEN Ok([parsed_logs |-> parsed_logs, highest_block |-> highest_block])
    ELSE LET event == Head(events) IN
         IF event.block_number = None
         THEN Err
         ELSE LET block_number == event.block_number[1] IN
              IF ~block_processed(lpb, block_number)
              THEN LET log == parse_bridge_event(event) IN
                   IF ~log.ok
                   THEN Err
                   ELSE bridge_loop_eager(
                            Number(raise_highest(block_number, highest_block)),
                            Tail(events), Append(parsed_logs, log.val),
                            raise_highest(block_number, highest_block))
              ELSE bridge_loop_eager(lpb, Tail(events), parsed_logs, highest_block)

\* The for loop of handle_bridge_event over the remaining events. It ends in
\* Err as soon as a `?` returns early, else in Ok of the loop's two locals.
RECURSIVE bridge_loop(_, _, _, _)
bridge_loop(lpb, events, parsed_logs, highest_block) ==
    IF events = << >>
    THEN Ok([parsed_logs |-> parsed_logs, highest_block |-> highest_block])
    ELSE LET event == Head(events) IN
         IF event.block_number = None
         THEN Err
         ELSE LET block_number == event.block_number[1] IN
              IF ~block_processed(lpb, block_number)
              THEN LET log == parse_bridge_event(event) IN
                   IF ~log.ok
                   THEN Err
                   ELSE bridge_loop(lpb, Tail(events),
                                    Append(parsed_logs, log.val),
                                    raise_highest(block_number, highest_block))
              ELSE bridge_loop(lpb, Tail(events), parsed_logs, highest_block)

\* The for loop of handle_settlement_event: the parsed log is bound to `log`
\* and never pushed, so parsed_logs stays as it was.
RECURSIVE settlement_loop(_, _, _, _)
settlement_loop(lpb, events, parsed_logs, highest_block) ==
    IF events = << >>
    THEN Ok([parsed_logs |-> parsed_logs, highest_block |-> highest_block])
    ELSE LET event == Head(events) IN
         IF event.block_number = None
         THEN Err
         ELSE LET block_number == event.block_number[1] IN
              IF ~block_processed(lpb, block_number)
              THEN LET log == parse_settlement_event(event) IN
                   IF ~log.ok
                   THEN Err
                   ELSE settlement_loop(lpb, Tail(events), parsed_logs,
                                        raise_highest(block_number, highest_block))
              ELSE settlement_loop(lpb, Tail(events), parsed_logs, highest_block)

\* The watermark written as the block after the highest one seen.
Outcome_next_block(lpb, r) ==
    IF r.ok
    THEN [result |-> Ok(r.val.parsed_logs),
          lpb |-> Number(r.val.highest_block + 1)]
    ELSE [result |-> Err, lpb |-> lpb]

\* What a handler leaves behind: its return value and last_processed_block.
\* An early return leaves last_processed_block as it was.
Outcome(lpb, r) ==
    IF r.ok
    THEN [result |-> Ok(r.val.parsed_logs), lpb |-> Number(r.val.highest_block)]
    ELSE [result |-> Err, lpb |-> lpb]

\* handle_bridge_event with highest_block starting at U64::from(0).
handle_bridge_event_from_zero(lpb, events) ==
    Outcome(lpb, bridge_loop(lpb, events, << >>, 0))

\* EoServer::handle_bridge_event
handle_bridge_event(lpb, events) ==
    Outcome(lpb, bridge_loop(lpb, events, << >>, inner_block_processed(lpb)))

\* EoServer::handle_settlement_event
handle_settlement_event(lpb, events) ==
    Outcome(lpb, settlement_loop(lpb, events, << >>, inner_block_processed(lpb)))

\* The closure of log_handler!: a transport error becomes an empty Vec.
log_handler(r) ==
    IF r.ok THEN r.val ELSE << >>

\* process_logs with the transport error propagated (`logs?`) instead of
\* handed to the handler closure.
process_logs_propagating(lpb, et, r) ==
    IF ~r.ok
    THEN [result |-> Err, lpb |-> lpb]
    ELSE IF et = "Bridge"
         THEN handle_bridge_event(lpb, r.val)
         ELSE handle_settlement_event(lpb, r.val)

\* EoServer::process_logs
process_logs(lpb, et, r) ==
    LET events == log_handler(r) IN
    IF et = "Bridge"
    THEN handle_bridge_event(lpb, events)
    ELSE handle_settlement_event(lpb, events)

\* ---------------------------------------------------------------- actions
Init ==
    /\ last_processed_block \in BlockNumber
    /\ start = last_processed_block
    /\ before = last_processed_block
    /\ pc = "loop"
    /\ event_type = "none"
    /\ response = Ok(<< >>)
    /\ logs = Ok(<< >>)
    /\ settled = {}
    /\ sink = EmptyBag
    /\ stop = FALSE

\* run_loop calls next, which creates the two query futures and selects on them.
StartCycle ==
    /\ pc = "loop"
    /\ pc' = "select"
    /\ event_type' = "none"
    /\ response' = Ok(<< >>)
    /\ logs' = Ok(<< >>)
    /\ settled' = {}
    /\ before' = last_processed_block
    /\ UNCHANGED << last_processed_block, start, sink, stop >>

\* A select! branch: the query of event type et completes first with result r,
\* its batch goes through process_logs, and next returns; the other future is
\* dropped with the select!.
Branch(et, r) ==
    LET out == process_logs(last_processed_block, et, r) IN
    /\ pc = "select"
    /\ pc' = "returned"
    /\ event_type' = et
    /\ response' = r
    /\ last_processed_block' = out.lpb
    /\ logs' = out.result
    /\ settled' = settled \cup {et}
    /\ UNCHANGED << before, start, sink, stop >>

SettlementCompletes ==
    /\ pc = "select"
    /\ \E r \in Responses : Branch("Settlement", r)

BridgeCompletes ==
    /\ pc = "select"
    /\ \E r \in Responses : Branch("Bridge", r)

\* What run_loop's log::info! adds to the output for the returned logs.
Surfaced(et, l) == SetToBag({<< et, l[i] >> : i \in 1 .. Len(l)})

\* The loop body with the result of next propagated (`self.next().await?`): an
\* Err ends run_loop.
LoopBody_propagating ==
    /\ pc = "returned"
    /\ pc' = IF logs.ok THEN "loop" ELSE "exited"
    /\ sink' = IF logs.ok /\ Len(logs.val) > 0
               THEN sink (+) Surfaced(event_type, logs.val)
               ELSE sink
    /\ UNCHANGED << last_processed_block, event_type, response, logs, settled,
                    before, start, stop >>

\* The body of run_loop's loop after next has returned: a non-empty Ok result
\* is logged; then the loop goes round.
LoopBody ==
    /\ pc = "returned"
    /\ pc' = "loop"
    /\ sink' = IF logs.ok /\ Len(logs.val) > 0
               THEN sink (+) Surfaced(event_type, logs.val)
               ELSE sink
    /\ UNCHANGED << last_processed_block, event_type, response, logs, settled,
                    before, start, stop >>

\* Some other task raises the stop signal. Nothing in run_loop receives it.
RaiseStop ==
    /\ ~stop
    /\ stop' = TRUE
    /\ UNCHANGED << last_processed_block, pc, event_type, response, logs,
                    settled, before, start, sink >>

Next ==
    \/ StartCycle
    \/ SettlementCompletes
    \/ BridgeCompletes
    \/ LoopBody

Spec == Init /\ [][Next]_vars

\* The listener together with a task that may raise the stop signal.
NextStop ==
    \/ Next
    \/ RaiseStop

SpecStop == Init /\ [][NextStop]_vars

\* ---------------------------------------------------------------- properties
Range(s) == {s[i] : i \in DOMAIN s}

MaxOf(S) == CHOOSE m \in S : \A x \in S : x <= m

\* The numeric value of a stored watermark: its number, and 0 for a tag.
ValueOf(lpb) == IF lpb.tag = "Number" THEN lpb.bn ELSE 0

\* How often run_loop has surfaced log l of event type et.
Delivered(et, l) == CopiesIn(<< et, l >>, sink)

HasBlock(l) == l.block_number # None

BlockOf(l) == l.block_number[1]

\* The logs of the batch this iteration's branch received (none on a transport
\* error, none before a branch has run).
BatchLogs == IF response.ok THEN Range(response.val) ELSE {}

\* C1. At-most-once delivery: however often the re-queried filters list a log
\* again, no log is surfaced to the sink more than once.
AtMostOnceDelivery ==
    \A e \in BagToSet(sink) : CopiesIn(e, sink) <= 1

\* A cycle has ended in which a bridge batch delivered a new log and also
\* listed again a log that an earlier cycle had delivered.
AtMostOnceWitness ==
    /\ pc = "loop"
    /\ event_type = "Bridge"
    /\ logs.ok
    /\ Len(logs.val) > 0
    /\ \E l \in BatchLogs :
          /\ l \notin Range(logs.val)
          /\ Delivered("Bridge", l) = 1

\* C2. No loss: when a cycle has ended whose batch was processed without
\* abort, every well-formed log of that batch whose block the starting
\* watermark does not count as processed has been surfaced under the batch's
\* event type.
NoLoss ==
    (pc = "loop" /\ event_type \in EventTypes /\ logs.ok)
        => \A l \in BatchLogs :
              (HasBlock(l) /\ l.parses /\ ~block_processed(start, BlockOf(l)))
                  => Delivered(event_type, l) >= 1

\* The watermark the handler of event type et reads and writes: both handlers
\* use the one field self.last_processed_block.
watermark_of(et) == last_processed_block

\* C3. Independent watermarks: when a branch has processed the batch of one
\* event type, the watermark of the other event type is what it was when the
\* cycle began.
IndependentWatermarks ==
    (pc = "returned")
        => \A et \in EventTypes \ {event_type} :
              ValueOf(watermark_of(et)) = ValueOf(before)

\* C4. Watermark monotonicity: no step of the listener lowers the numeric
\* value of the watermark.
WatermarkMonotonic ==
    [][ValueOf(last_processed_block) <= ValueOf(last_processed_block')]_vars

\* A batch was processed without abort from a watermark above 0 and none of its
\* logs lay above that watermark.
WatermarkMonotonicWitness ==
    /\ pc = "returned"
    /\ logs.ok
    /\ ValueOf(before) > 0
    /\ BatchLogs # {}
    /\ \A l \in BatchLogs : BlockOf(l) < ValueOf(before)
    /\ last_processed_block = before

\* C5. Both queries settle in every cycle: when next returns, the batches of
\* both event types have been processed.
BothQueriesSettle ==
    (pc = "returned") => settled = EventTypes

\* C6. Batch-max advancement: after a batch processed without abort the
\* watermark is Number(m), m the largest of the watermark's value before the
\* batch and the block numbers of the batch's logs, whatever their order.
BatchMaxAdvancement ==
    (pc = "returned" /\ logs.ok)
        => last_processed_block =
              Number(MaxOf({ValueOf(before)} \cup {BlockOf(l) : l \in BatchLogs}))

\* A batch of three logs in three different blocks, the highest of them listed
\* second and above the watermark, was processed without abort.
BatchMaxWitness ==
    /\ pc = "returned"
    /\ logs.ok
    /\ response.ok
    /\ Len(response.val) = 3
    /\ BlockOf(response.val[2]) > BlockOf(response.val[1])
    /\ BlockOf(response.val[1]) > BlockOf(response.val[3])
    /\ BlockOf(response.val[2]) > ValueOf(before)

\* A batch in which every log has a block number.
AllHaveBlock == \A l \in BatchLogs : HasBlock(l)

\* C7. Malformed-field logs are skipped individually: a bridge batch whose logs
\* all have a block number and one of which fails to decode is not aborted, and
\* every well-formed log of it above the watermark is among the returned logs.
MalformedLogSkipped ==
    (/\ pc = "returned"
     /\ event_type = "Bridge"
     /\ response.ok
     /\ AllHaveBlock
     /\ \E l \in BatchLogs : ~l.parses)
        => /\ logs.ok
           /\ \A l \in BatchLogs :
                 (l.parses /\ ~block_processed(before, BlockOf(l)))
                     => l \in Range(logs.val)

\* A batch that lists a log without a block number.
MissingBlockNumber == response.ok /\ \E l \in BatchLogs : ~HasBlock(l)

\* C8. A missing block number aborts the batch atomically: the branch that
\* processes such a batch returns an error and leaves the watermark as it was,
\* and the loop body that follows surfaces nothing.
MissingBlockAborts ==
    [][/\ (pc = "select" /\ pc' = "returned" /\ MissingBlockNumber')
            => (logs' = Err /\ last_processed_block' = last_processed_block)
       /\ (pc = "returned" /\ MissingBlockNumber)
            => sink' = sink]_vars

\* A cycle has ended whose batch listed a well-formed log above the watermark
\* first and a log without a block number after it: the batch was aborted, the
\* first log was not surfaced and the watermark is the one the cycle began with.
MissingBlockWitness ==
    /\ pc = "loop"
    /\ response.ok
    /\ Len(response.val) >= 2
    /\ HasBlock(response.val[1])
    /\ response.val[1].parses
    /\ ~block_processed(before, BlockOf(response.val[1]))
    /\ \E i \in 2 .. Len(response.val) : ~HasBlock(response.val[i])
    /\ logs = Err
    /\ Delivered(event_type, response.val[1]) = 0
    /\ last_processed_block = before

StopHonoured ==
    [][(stop /\ pc = "loop") => pc' # "select"]_vars

\* Block b lies above the stored watermark w: above its number, and any block
\* when w holds no number.
Above(w, b) == w.tag # "Number" \/ b > w.bn

\* The well-formed log of block b.
LogAt(b) == [block_number |-> Some(b), parses |-> TRUE, log_index |-> 0]

\* A batch whose logs all have a block number and all decode.
WellFormedBatch == response.ok /\ \A l \in BatchLogs : HasBlock(l) /\ l.parses

\* The logs of sequence s whose block lies above w, in the order of s.
RECURSIVE AboveIn(_, _)
AboveIn(w, s) ==
    IF s = << >>
    THEN << >>
    ELSE IF Above(w, BlockOf(Head(s)))
         THEN << Head(s) >> \o AboveIn(w, Tail(s))
         ELSE AboveIn(w, Tail(s))

\* C11. Bridge batch filter: a bridge batch of well-formed logs processed from
\* watermark W returns exactly its logs with a block above W, in the order of
\* the response. From watermark 0 the batch at blocks 1, 2 returns both and
\* sets the watermark to 2; the batch at blocks 2, 3 that follows returns the
\* log of block 3 alone and sets the watermark to 3.
BridgeBatchFilter ==
    /\ (pc = "returned" /\ event_type = "Bridge" /\ WellFormedBatch)
          => logs = Ok(AboveIn(before, response.val))
    /\ handle_bridge_event(Number(0), << LogAt(1), LogAt(2) >>)
          = [result |-> Ok(<< LogAt(1), LogAt(2) >>), lpb |-> Number(2)]
    /\ handle_bridge_event(Number(2), << LogAt(2), LogAt(3) >>)
          = [result |-> Ok(<< LogAt(3) >>), lpb |-> Number(3)]

\* The listener started at watermark 0 and has surfaced the bridge logs of
\* blocks 1 and 2; now a bridge batch at blocks 2, 3 has returned the log of
\* block 3 alone and set the watermark to 3.
BridgeBatchFilterWitness ==
    /\ pc = "returned"
    /\ event_type = "Bridge"
    /\ start = Number(0)
    /\ before = Number(2)
    /\ response = Ok(<< LogAt(2), LogAt(3) >>)
    /\ logs = Ok(<< LogAt(3) >>)
    /\ last_processed_block = Number(3)
    /\ Delivered("Bridge", LogAt(1)) = 1
    /\ Delivered("Bridge", LogAt(2)) = 1
    /\ Delivered("Bridge", LogAt(3)) = 0

\* C12. Settlement batches are handled like bridge batches: a settlement batch
\* of well-formed logs leaves the returned logs and the watermark that
\* handle_bridge_event leaves for the same watermark and the same logs.
SettlementLikeBridge ==
    (pc = "returned" /\ event_type = "Settlement" /\ WellFormedBatch)
        => [result |-> logs, lpb |-> last_processed_block]
              = handle_bridge_event(before, response.val)

\* C13. Empty batches leave the watermark untouched: a branch whose response
\* lists zero logs leaves the stored watermark, number or tag, as it was.
EmptyBatchUntouched ==
    (pc = "returned" /\ response = Ok(<< >>))
        => last_processed_block = before

\* C14. Batch failures never end the session: run_loop is never anywhere but in
\* its loop; whatever next has returned, an error included, the loop body can
\* run and takes the loop back to its top; and at the top the next call of next
\* can begin.
SessionContinues ==
    /\ pc \in {"loop", "select", "returned"}
    /\ (pc = "returned") => ENABLED (LoopBody /\ pc' = "loop")
    /\ (pc = "loop") => ENABLED StartCycle

\* A cycle has ended whose batch was aborted, after earlier cycles surfaced
\* logs, and run_loop is at the top of its loop again.
SessionContinuesWitness ==
    /\ pc = "loop"
    /\ ~logs.ok
    /\ sink # EmptyBag

\* The stored watermarks of a state: the current one and the one the cycle
\* began with.
StoredWatermarks == {last_processed_block, before}

\* C15, as stated. The already-processed test is block <= watermark: for every
\* block b and stored watermark w, block_processed answers true exactly when b
\* is at most the value inner_block_processed gives for w.
ProcessedTestIsAtMostValue ==
    \A w \in StoredWatermarks : \A b \in Blocks :
        block_processed(w, b) <=> (b <= inner_block_processed(w))

\* C15, amended. For every block b and stored watermark w, block_processed
\* answers true exactly when w is a Number and b is at most the value
\* inner_block_processed gives for it; when w holds no number it answers false
\* for every block, although that value is 0.
ProcessedTestOfNumber ==
    \A w \in StoredWatermarks : \A b \in Blocks :
        block_processed(w, b)
            <=> (w.tag = "Number" /\ b <= inner_block_processed(w))

\* A bridge batch processed from a watermark that holds no number has returned
\* a log of block 0, the block that equals the starting maximum.
ProcessedTestWitness ==
    /\ pc = "returned"
    /\ event_type = "Bridge"
    /\ before.tag # "Number"
    /\ inner_block_processed(before) = 0
    /\ logs.ok
    /\ LogAt(0) \in Range(logs.val)

\* C16. The watermark never runs ahead of observed blocks: a branch leaves the
\* watermark's value as it was, or at the block number of a log of its batch
\* that decoded, and then only if the batch was processed without abort. So the
\* value is always the initial one or the block of a log some query returned.
WatermarkFromObservedBlocks ==
    (pc \in {"returned", "loop"})
        => /\ (~logs.ok => last_processed_block = before)
           /\ \/ ValueOf(last_processed_block) = ValueOf(before)
              \/ /\ logs.ok
                 /\ \E l \in BatchLogs :
                       /\ HasBlock(l)
                       /\ l.parses
                       /\ BlockOf(l) = ValueOf(last_processed_block)

\* A batch listed a well-formed log above the watermark first and a log that
\* fails to decode after it, was aborted, and left the watermark as it was.
WatermarkFromObservedWitness ==
    /\ pc = "returned"
    /\ response.ok
    /\ Len(response.val) >= 2
    /\ HasBlock(response.val[1])
    /\ response.val[1].parses
    /\ Above(before, BlockOf(response.val[1]))
    /\ ~response.val[2].parses
    /\ ~logs.ok
    /\ last_processed_block = before

\* The block of an entry of the sink.
EntryBlock(e) == BlockOf(e[2])

\* C17. Delivery is ordered across cycles: every log a branch returns for
\* surfacing lies in a block above the block of every log surfaced by an
\* earlier cycle.
DeliveryOrdered ==
    (pc = "returned" /\ logs.ok)
        => \A l \in Range(logs.val) : \A e \in BagToSet(sink) :
              BlockOf(l) > EntryBlock(e)

\* A branch has returned logs for surfacing after earlier cycles surfaced some,
\* from a batch that also listed a log surfaced earlier.
DeliveryOrderedWitness ==
    /\ pc = "returned"
    /\ logs.ok
    /\ Len(logs.val) > 0
    /\ sink # EmptyBag
    /\ \E l \in BatchLogs : Delivered(event_type, l) = 1

\* C18. The watermark is frozen while a batch is processed: every log of a
\* bridge batch processed without abort that lies above the watermark the batch
\* started with is returned, wherever it stands in the batch and whatever
\* blocks the logs before it have: logs sharing a block, and logs in decreasing
\* order of block, are all returned.
WatermarkFrozenInBatch ==
    (pc = "returned" /\ event_type = "Bridge" /\ logs.ok)
        => \A l \in BatchLogs :
              Above(before, BlockOf(l)) => l \in Range(logs.val)

\* A bridge batch listed the two logs of the last block and then the log of a
\* lower block, all above the watermark, and all three were returned.
WatermarkFrozenWitness ==
    /\ pc = "returned"
    /\ event_type = "Bridge"
    /\ response.ok
    /\ Len(response.val) = 3
    /\ HasBlock(response.val[1]) /\ HasBlock(response.val[2])
    /\ HasBlock(response.val[3])
    /\ BlockOf(response.val[1]) = BlockOf(response.val[2])
    /\ BlockOf(response.val[2]) > BlockOf(response.val[3])
    /\ before.tag = "Number"
    /\ BlockOf(response.val[3]) > before.bn
    /\ logs = Ok(response.val)

\* C19. Logs at the starting block are never delivered: when the watermark
\* starts at Number(S), no log of a block at or below S is ever surfaced.
StartingBlockNeverDelivered ==
    (start.tag = "Number")
        => \A e \in BagToSet(sink) : EntryBlock(e) > start.bn

\* The listener started at Number(0); a cycle has ended whose bridge batch
\* listed the log of block 0 with a higher one: the higher one was surfaced,
\* the log of block 0 was not.
StartingBlockWitness ==
    /\ pc = "loop"
    /\ start = Number(0)
    /\ event_type = "Bridge"
    /\ logs.ok
    /\ Len(logs.val) > 0
    /\ LogAt(0) \in BatchLogs
    /\ Delivered("Bridge", LogAt(0)) = 0

====
